---- MODULE Spec2Model ----
(***************************************************************************)
(* A model of the ASCII terminal video player: the subtitle activation     *)
(* window (SubtitleState), the playback clock and render loop              *)
(* (VideoStream, _main, main of run.py / embedded_video.py) and the frame  *)
(* container codec (compress.py, decompress.py).                           *)
(*                                                                         *)
(* The specifications share the variables:                                 *)
(*   SpecSubs     SubtitleState driven by non-decreasing times             *)
(*   SpecSubsAny  SubtitleState driven by arbitrary times                  *)
(*   Spec         the player: main, _main, the render loop                 *)
(*   SpecAudio    the player with the audio thread interleaved             *)
(*   SpecSource   the player on a source whose reads fail before its end   *)
(*   FairSource   SpecSource with main always taking its next step         *)
(*   SpecClock    the VideoStream clock called as an API, with set_fps     *)
(*   SpecRate     a VideoStream with a caption track under set_fps         *)
(*   SpecRaster   create_frame's quantization of one pixel                 *)
(*   SpecCodec    compress.py writing a container, decompress.py reading   *)
(* Each one holds the variables of the others at their idle values.        *)
(***************************************************************************)
EXTENDS Integers, Sequences, FiniteSets, TLC

VARIABLES
    \* ---- SubtitleState (run.py 27-50)
    sub,             \* the SubtitleState object (self.video_subs in the player), or NoObj
    last_time,       \* the time of the last update call, None before the first
    \* ---- the player (run.py 52-148, 294-378, 395-444)
    pc,              \* the position in main/_main
    variant,         \* "run" (run.py) or "embedded" (embedded_video.py)
    env,             \* what the environment holds: files, the video source
    now,             \* perf_counter(), in ticks
    vs,              \* the VideoStream object's fields, None before construction
    cap_pos,         \* the index of the frame the next cap.read() returns
    ret,             \* the result of the last cap.read(): "none", "ok", "eof"
                     \* (failed at the end), "bad" (failed before the end)
    drawn,           \* the index of the source frame last drawn, -1 if none
    rendered,        \* whether the current loop iteration drew a frame
    term,            \* the terminal: "shell" or "curses"
    result,          \* what _main returned or raised, None before it ends
    exit_code,       \* main's local exit_code, None before it is set
    returned,        \* the value main returned, None while it runs
    printed,         \* the messages printed, each with the terminal mode at the time
    first_mark,      \* perf_counter() at the first time_update, None before it
    \* ---- the codec (compress.py, decompress.py)
    cpc,             \* the position in compress.main, then decompress.main
    cin,             \* the encoder's inputs: source frames, arguments
    frame_idx,       \* compress.py: frame_idx
    last_frame,      \* compress.py: last_frame
    chunk_list,      \* compress.py: chunk_list
    file,            \* the container file: a sequence of bytes
    damage,          \* how the file was damaged after it was written
    dec,             \* decompress.py: the header fields read and the loop index
    exported,        \* the frames decompress.py exported, in order
    enc_code,        \* compress.py's exit code, None while it runs
    dec_code,        \* decompress.py's exit code, None while it runs
    \* ---- the audio thread (run.py 156-164)
    audio,           \* the thread: "none", "started", "playing", "done", "failed"
    \* ---- what complete_frame asked of sleep (run.py 128-132)
    sleep_req,       \* the duration of the last sleep call in ticks, 0 if it
                     \* made none, None before the first complete_frame
    \* ---- the rasterizer (run.py 253-263)
    ras              \* a create_frame call on one pixel: its arguments and
                     \* the index it computed, None where it is not modelled

subVars == <<sub, last_time>>
playVars == <<pc, variant, env, now, vs, cap_pos, ret, drawn, rendered, term,
              result, exit_code, returned, printed, first_mark>>
codecVars == <<cpc, cin, frame_idx, last_frame, chunk_list, file, damage, dec,
               exported, enc_code, dec_code>>
auxVars == <<audio, sleep_req, ras>>
vars == <<subVars, playVars, codecVars, auxVars>>

\* Python's None: for an object, for a number (every number of the model that
\* can be None is otherwise >= 0).
NoObj == [none |-> TRUE]
NoInt == 0 - 1
NoResult == [kind |-> "unset"]

\* ------------------------------------------------------------------ bounds
MaxCues == 2          \* cues in a cue list
MaxTime == 4          \* cue times and update times range over 0..MaxTime

\* ------------------------------------------------------------- arithmetic
Max(a, b) == IF a >= b THEN a ELSE b
Min(a, b) == IF a <= b THEN a ELSE b

Range(s) == {s[i] : i \in DOMAIN s}

\* ==========================================================================
\* SubtitleState
\* ==========================================================================

\* A cue of the caption track: start < end, text names it.
CueTexts == <<"a", "b", "c", "d">>

Cues(T) == {[start |-> s, end |-> e] : s \in T, e \in T}

\* The cue lists of length n, sorted ascending by start (pysubs2 loads a
\* track in file order; the player is given tracks sorted by start).
RECURSIVE SortedLists(_, _)
SortedLists(n, T) ==
    IF n = 0 THEN {<<>>}
    ELSE {Append(l, [start |-> c.start, end |-> c.end, text |-> CueTexts[n]]) :
             l \in SortedLists(n - 1, T),
             c \in {x \in Cues(T) : x.start < x.end}}

IsSorted(l) == \A i \in 1..(Len(l) - 1) : l[i].start <= l[i + 1].start

CueLists == {l \in UNION {SortedLists(n, 0..MaxTime) : n \in 0..MaxCues} : IsSorted(l)}

\* The cue list and the times of the example of the subtitle window.
ExampleCues == <<[start |-> 0, end |-> 1000, text |-> "a"],
                 [start |-> 500, end |-> 1500, text |-> "b"]>>
ExampleTimes == {200, 700, 1200, 1600}

\* SubtitleState.__init__
SubsNew(subs_file) ==
    [subs |-> subs_file, current |-> 0, active |-> <<>>, cached |-> <<>>, stale |-> FALSE]

\* An update that finds the cursor by scanning the list from its start.
MutRescans(cues, cur, num, den) ==
    Cardinality({i \in 1..Len(cues) : cues[i].start * den <= num})

\* The while loop of update: the cursor after advancing over every cue with
\* start <= time_ms, where time_ms = num / den.
RECURSIVE Advance(_, _, _, _)
Advance(cues, cur, num, den) ==
    IF cur < Len(cues) /\ cues[cur + 1].start * den <= num
    THEN Advance(cues, cur + 1, num, den)
    ELSE cur

\* The filter of update: a cue stays active while end > time_ms.
MutKeepsEnded(c, num, den) == c.end * den >= num
StaysActive(c, num, den) == c.end * den > num

\* An update that sets stale from the length of active alone.
MutStaleByLength(st, num, den) ==
    LET cur == Advance(st.subs, st.current, num, den)
        appended == st.active \o SubSeq(st.subs, st.current + 1, cur)
        kept == SelectSeq(appended, LAMBDA c : StaysActive(c, num, den))
    IN [st EXCEPT !.current = cur,
                  !.active = kept,
                  !.stale = (Len(kept) # Len(st.active))]

\* SubtitleState.update(time_ms), time_ms = num / den.
SubsUpdate(st, num, den) ==
    LET old_len == Len(st.active)
        prev_current == st.current
        cur == Advance(st.subs, st.current, num, den)
        appended == st.active \o SubSeq(st.subs, st.current + 1, cur)
        kept == SelectSeq(appended, LAMBDA c : StaysActive(c, num, den))
    IN [st EXCEPT !.current = cur,
                  !.active = kept,
                  !.stale = (cur # prev_current \/ Len(kept) # old_len)]

\* ==========================================================================
\* Idle values: what a specification holds the other components at
\* ==========================================================================
SubIdle == sub = NoObj /\ last_time = NoInt

PlayIdle ==
    /\ pc = "idle" /\ variant = "run" /\ env = NoObj /\ now = 0 /\ vs = NoObj
    /\ cap_pos = 0 /\ ret = "none" /\ drawn = -1 /\ rendered = FALSE
    /\ term = "shell" /\ result = NoResult /\ exit_code = NoInt /\ returned = NoInt
    /\ printed = <<>> /\ first_mark = NoInt

CodecIdle ==
    /\ cpc = "idle" /\ cin = NoObj /\ frame_idx = 0 /\ last_frame = 0
    /\ chunk_list = <<>> /\ file = <<>> /\ damage = "none" /\ dec = NoObj
    /\ exported = <<>> /\ enc_code = NoInt /\ dec_code = NoInt

AuxIdle == audio = "none" /\ sleep_req = NoInt /\ ras = NoObj

\* ==========================================================================
\* SpecSubs: a SubtitleState over a sorted cue list, updated at
\* non-decreasing times
\* ==========================================================================
UpdateTimes == (0..(MaxTime + 1)) \cup ExampleTimes

InitSubs ==
    /\ sub \in {SubsNew(l) : l \in CueLists \cup {ExampleCues}}
    /\ last_time = NoInt
    /\ PlayIdle
    /\ CodecIdle
    /\ AuxIdle

\* update(t) with t no smaller than the time of the last call
Update ==
    \E t \in UpdateTimes :
        /\ last_time # NoInt => t >= last_time
        /\ sub' = SubsUpdate(sub, t, 1)
        /\ last_time' = t
        /\ UNCHANGED <<playVars, codecVars, auxVars>>

NextSubs == Update

SpecSubs == InitSubs /\ [][NextSubs]_vars

\* The cues of st.subs on screen at time t: start <= t < end.
OnScreen(st, t) == {c \in Range(st.subs) : c.start <= t /\ t < c.end}

\* C1: for a cue list sorted ascending by start and non-decreasing update
\* times, after each update(t) the active list holds exactly the cues with
\* start <= t < end, each of them once.
C1_ActiveIsWindow ==
    last_time # NoInt =>
        /\ Range(sub.active) = OnScreen(sub, last_time)
        /\ Len(sub.active) = Cardinality(OnScreen(sub, last_time))

\* C1: the example: the cues {0,1000,a}, {500,1500,b} updated at 200, 700,
\* 1200, 1600 leave active = {a}, {a,b}, {b}, {}.
ActiveTexts == {c.text : c \in Range(sub.active)}

C1_Example ==
    (sub # NoObj /\ sub.subs = ExampleCues) =>
        /\ last_time = 200 => ActiveTexts = {"a"}
        /\ last_time = 700 => ActiveTexts = {"a", "b"}
        /\ last_time = 1200 => ActiveTexts = {"b"}
        /\ last_time = 1600 => ActiveTexts = {}

\* C1: after each update at non-decreasing times over a sorted cue list,
\* active is exactly the window of cues on screen, each once; the example
\* included.
C1_Theorem == C1_ActiveIsWindow /\ C1_Example

\* Witness of C1: two cues overlap, both were activated, the first has been
\* dropped at its end and the second is still on screen.
C1_Witness ==
    /\ last_time # NoInt
    /\ Len(sub.subs) = 2
    /\ sub.current = 2
    /\ sub.subs[1].end <= last_time
    /\ sub.subs[2].start < sub.subs[1].end
    /\ sub.active = <<sub.subs[2]>>

\* ==========================================================================
\* SpecSubsAny: the same SubtitleState updated at arbitrary times, a time
\* smaller than an earlier one included
\* ==========================================================================
UpdateAny ==
    \E t \in UpdateTimes :
        /\ sub' = SubsUpdate(sub, t, 1)
        /\ last_time' = t
        /\ UNCHANGED <<playVars, codecVars, auxVars>>

NextSubsAny == UpdateAny

SpecSubsAny == InitSubs /\ [][NextSubsAny]_vars

\* The cues the cursor has passed: those below index current.
Passed(st) == {st.subs[i] : i \in 1..st.current}

\* C14: for any sequence of update times, a time smaller than an earlier
\* one included, update completes, the cursor never decreases, and a cue
\* the cursor has passed is never appended to active again: what is new in
\* active comes from the cues the call itself passed, and no cue is in
\* active twice.
C14_CursorNeverRewinds ==
    /\ [](ENABLED UpdateAny)
    /\ [][UpdateAny =>
            /\ sub'.current >= sub.current
            /\ (Range(sub'.active) \ Range(sub.active)) \cap Passed(sub) = {}
            /\ Cardinality(Range(sub'.active)) = Len(sub'.active)]_vars

\* Witness of C14: the cursor is past a cue that starts after the time of
\* the last update, so that update's time was smaller than an earlier one;
\* the cue is not active.
C14_Witness ==
    /\ last_time # NoInt
    /\ sub.current >= 1
    /\ sub.subs[sub.current].start > last_time
    /\ sub.subs[sub.current] \notin Range(sub.active)

\* C17: after each update, stale is true exactly when the cursor advanced
\* or the size of active changed; so whenever the contents of active differ
\* before and after the call, stale is true.
C17_StaleIffChanged ==
    [][UpdateAny =>
        /\ sub'.stale <=> (sub'.current # sub.current
                           \/ Len(sub'.active) # Len(sub.active))
        /\ sub'.active # sub.active => sub'.stale]_vars

\* Witness of C17: an update at the time the first cue ends and the second
\* starts: the second cue alone is active after it, and stale is set.
C17_Witness ==
    /\ last_time # NoInt
    /\ Len(sub.subs) = 2
    /\ sub.subs[1].start < sub.subs[2].start
    /\ sub.subs[1].end = sub.subs[2].start
    /\ last_time = sub.subs[2].start
    /\ sub.active = <<sub.subs[2]>>
    /\ sub.stale

\* ==========================================================================
\* The player: VideoStream (run.py 52-148)
\* ==========================================================================

\* Time is counted in ticks of a third of a millisecond, so that the frame
\* interval of every frame rate of the model is a whole number of ticks.
MsPerSec == 1000
TicksPerSec == 3 * MsPerSec
OneMs == TicksPerSec \div MsPerSec
FallbackFps == 30

\* ------------------------------------------------------------------ bounds
MaxFrames == 3        \* frames of the video source
MaxWork == 5          \* ticks a read + draw can take (more than a frame interval)

\* Ticks that pass between two adjacent clock reads, and ticks a sleep lasts
\* beyond the time asked for.
Gaps == {0, 1}
Jitters == {0, 1}

\* The frame rates cap.get(CAP_PROP_FPS) reports: a real one, 0 (unknown),
\* a negative one.
SourceFpsSet == {750, 0, 0 - 1}

\* A rounding that sends a half above an odd integer two up.
MutHalfOvershoots(n, d) ==
    LET q == n \div d
        r == n % d
    IN  IF 2 * r < d THEN q
        ELSE IF 2 * r > d THEN q + 1
        ELSE IF q % 2 = 0 THEN q ELSE q + 2

\* n / d rounded to the nearest integer, halves to the even one: Python's
\* round() on a float.
RoundHalfEven(n, d) ==
    LET q == n \div d
        r == n % d
    IN  IF 2 * r < d THEN q
        ELSE IF 2 * r > d THEN q + 1
        ELSE IF q % 2 = 0 THEN q ELSE q + 1

\* a / b for b # 0, exact for the values of the model (b divides a)
Quot(a, b) == IF b > 0 THEN a \div b ELSE 0 - (a \div (0 - b))

\* VideoStream.__init__ raises ZeroDivisionError at
\* self.duration = self.total_frame_count / self.fps when the source fps is 0.
VsNewRaises(src_fps) == src_fps = 0

\* VideoStream.__init__: the fields after construction (times in ticks).
VsNew(src_fps, total, has_subs) ==
    LET fps == IF src_fps <= 0 THEN FallbackFps ELSE src_fps
    IN  [t0 |-> 0 - 1,
         has_subs |-> has_subs,
         exit_request |-> FALSE,
         elapsed_time |-> 0,
         fps |-> fps,
         total_frame_count |-> total,
         duration |-> Quot(total * TicksPerSec, src_fps),
         frame_counter_before_update |-> 0,
         frame_counter_update_timer |-> 0,
         last_updated_fps_counter |-> 0 - 1,
         last_rendered_frame |-> 0 - 1,
         last_frame_delta |-> 0 - 1,
         time_step |-> TicksPerSec \div fps]

\* A set_fps that ignores a rate of 0 alone.
MutSetFpsTakesNegative(v, new_fps) ==
    IF new_fps = 0 THEN v
    ELSE [v EXCEPT !.fps = new_fps, !.time_step = TicksPerSec \div new_fps]

\* A set_fps that leaves time_step as it was.
MutSetFpsKeepsStep(v, new_fps) ==
    IF new_fps <= 0 THEN v ELSE [v EXCEPT !.fps = new_fps]

\* VideoStream.set_fps, run.py 91-99, the fields of the VideoStream itself:
\* a rate of 0 or less is ignored.
set_fps(v, new_fps) ==
    IF new_fps <= 0 THEN v
    ELSE [v EXCEPT !.fps = new_fps, !.time_step = TicksPerSec \div new_fps]

\* VideoStream.should_end
should_end(v) == v.elapsed_time >= v.duration

\* VideoStream.time_to_frameno: round(elapsed_time * fps), elapsed in ticks
time_to_frameno(v, elapsed) == RoundHalfEven(elapsed * v.fps, TicksPerSec)

\* VideoStream.should_rerender
should_rerender(v) == time_to_frameno(v, v.elapsed_time) # v.last_rendered_frame

\* VideoStream.time_update, the clock reading clock at perf_counter()
MutTimeUpdateTruncates(v, clock) ==
    [v EXCEPT !.t0 = clock,
              !.last_rendered_frame = (v.elapsed_time * v.fps) \div TicksPerSec]
time_update(v, clock) ==
    [v EXCEPT !.t0 = clock,
              !.last_rendered_frame = time_to_frameno(v, v.elapsed_time)]

\* A complete_frame that sleeps for every remainder, however short.
MutSleepsBelowOneMs(v, dt) == IF dt < v.time_step THEN v.time_step - dt ELSE 0

\* complete_frame: whether it sleeps, and for how long it asks
SleepAsked(v, dt) ==
    IF dt < v.time_step /\ v.time_step - dt >= OneMs THEN v.time_step - dt ELSE 0

\* The while loop of complete_frame that rolls the one-second fps counter.
RECURSIVE RollCounter(_)
RollCounter(v) ==
    IF v.frame_counter_update_timer >= TicksPerSec
    THEN RollCounter([v EXCEPT
             !.frame_counter_update_timer = @ - TicksPerSec,
             !.last_updated_fps_counter = v.frame_counter_before_update,
             !.frame_counter_before_update = 0])
    ELSE v

\* VideoStream.complete_frame(t1): real_t0 and real_t1 are the two readings
\* of perf_counter() inside it, before and after the sleep.
complete_frame(v, t1, real_t0, real_t1) ==
    LET dt == Max(0, t1 - v.t0)
        real_dt == dt + (real_t1 - real_t0)
    IN  RollCounter([v EXCEPT
            !.last_frame_delta = dt - v.time_step,
            !.elapsed_time = @ + real_dt,
            !.frame_counter_before_update = @ + 1,
            !.frame_counter_update_timer = @ + real_dt])

\* render_subs: the cache of pre-split lines is rebuilt when stale is set.
SplitLines(c) == <<c.text>>

render_subs(st) ==
    IF st.stale
    THEN [st EXCEPT !.stale = FALSE,
                    !.cached = [i \in 1..Len(st.active) |-> SplitLines(st.active[i])]]
    ELSE st

\* ==========================================================================
\* The player: main and _main (run.py 294-378, 395-444; embedded_video.py
\* 275-355)
\* ==========================================================================

\* The caption track of the player's runs, times in ms.
PlayCues == <<[start |-> 0, end |-> 2, text |-> "a"],
              [start |-> 1, end |-> 3, text |-> "b"]>>

\* What the environment holds when the player starts.
\* A caption track with one long cue, times in ms.
LongCues == <<[start |-> 1, end |-> 4, text |-> "c"]>>

\* The track load_subtitles returns for the --subs argument, run.py 80-85.
HasSubs(e) == e.subs \in {"ok", "long"}
EnvCues(e) == IF e.subs = "long" THEN LongCues ELSE PlayCues

\* cap.read() at position pos, run.py 148-149: it fails at the end of the
\* source, and at the positions in bad, which it skips.
ReadFails(pos, e) == pos >= e.frames \/ pos \in e.bad

\* audio is the --audio argument of run.py, "none" when it is not given; in
\* embedded_video.py it says whether the bundled _data/v1 exists.
PlayEnvs ==
    {[input_exists |-> FALSE, subs |-> "none", audio |-> "none", bad |-> {}, opens |-> FALSE,
      src_fps |-> 0, total |-> 0, frames |-> 0]}
    \cup
    {[input_exists |-> TRUE, subs |-> sb, audio |-> "none", bad |-> {}, opens |-> FALSE,
      src_fps |-> 0, total |-> 0, frames |-> 0] : sb \in {"none", "missing"}}
    \cup
    {[input_exists |-> TRUE, subs |-> sb, audio |-> "none", bad |-> {}, opens |-> TRUE,
      src_fps |-> f, total |-> n, frames |-> k] :
         sb \in {"none", "ok"}, f \in SourceFpsSet,
         n \in 1..MaxFrames, k \in 0..MaxFrames}

Init ==
    /\ variant \in {"run", "embedded"}
    /\ env \in PlayEnvs
    /\ pc = "start"
    /\ now = 0 /\ vs = NoObj /\ cap_pos = 0 /\ ret = "none" /\ drawn = -1
    /\ rendered = FALSE /\ term = "shell" /\ result = NoResult
    /\ exit_code = NoInt /\ returned = NoInt /\ printed = <<>>
    /\ first_mark = NoInt
    /\ SubIdle
    /\ CodecIdle
    /\ AuxIdle

loopVars == <<now, vs, cap_pos, ret, drawn, rendered, first_mark, sub>>

\* What main waits for after async_start, run.py 87-89 and 346: the thread
\* is started and never joined, so nothing.
MutJoinsAudio(a) == IF a = "started" THEN "join" ELSE "loop"
AfterAsyncStart(a) == "loop"

\* VideoStream.__init__ 77-78 and async_start 87-89: a thread is created
\* and started when audio_file is truthy. run.py passes args.audio;
\* embedded_video.py 296 passes str(audio_path), truthy even for None.
AsyncStart(var, audio_arg) ==
    IF var = "embedded" \/ audio_arg # "none" THEN "started" ELSE "none"

\* main, run.py 408-418: the paths are checked before the terminal mode is
\* entered. embedded_video.py has no such check.
Main_CheckArgs ==
    /\ pc = "start"
    /\ IF variant = "run" /\ (~env.input_exists \/ env.subs = "missing"
                               \/ env.audio = "missing")
       THEN /\ printed' = Append(printed, [msg |-> "does not exist", term |-> term])
            /\ returned' = 1
            /\ pc' = "exited"
       ELSE /\ pc' = "initscr"
            /\ UNCHANGED <<printed, returned>>
    /\ UNCHANGED <<variant, env, term, result, exit_code, loopVars, last_time, codecVars,
                   auxVars>>

\* main, run.py 420-432: the terminal enters curses mode; exit_code = 1.
Main_InitScr ==
    /\ pc = "initscr"
    /\ term' = "curses"
    /\ exit_code' = 1
    /\ pc' = "_main"
    /\ UNCHANGED <<variant, env, result, returned, printed, loopVars, last_time, codecVars,
                   auxVars>>

\* _main up to the render loop, run.py 295-346: open the video, construct
\* the VideoStream (which loads the subtitles).
UMain_Open ==
    /\ pc = "_main"
    /\ IF ~(env.input_exists /\ env.opens)
       THEN /\ result' = [kind |-> "return", success |-> FALSE, code |-> 2,
                          msg |-> "cannot open"]
            /\ pc' = "after_main"
            /\ UNCHANGED <<vs, sub, audio>>
       ELSE IF VsNewRaises(env.src_fps)
       THEN /\ result' = [kind |-> "raise"]
            /\ pc' = "after_main"
            /\ UNCHANGED <<vs, sub, audio>>
       ELSE /\ vs' = VsNew(env.src_fps, env.total, HasSubs(env))
            /\ sub' = IF HasSubs(env) THEN SubsNew(EnvCues(env)) ELSE NoObj
            /\ audio' = AsyncStart(variant, env.audio)
            /\ pc' = AfterAsyncStart(audio')
            /\ UNCHANGED result
    /\ UNCHANGED <<variant, env, now, cap_pos, ret, drawn, rendered, term, exit_code,
                   returned, printed, first_mark, last_time, codecVars, sleep_req, ras>>

\* The loop ends, run.py 349-351: exit_request or should_end. _main then
\* runs off its end: it returns None.
Loop_End ==
    /\ pc = "loop"
    /\ vs.exit_request \/ should_end(vs)
    /\ result' = [kind |-> "none"]
    /\ pc' = "after_main"
    /\ UNCHANGED <<variant, env, term, exit_code, returned, printed, loopVars,
                   last_time, codecVars,
                   auxVars>>

\* A time_update that feeds the subtitle window seconds, not milliseconds.
MutFeedsSeconds(v, st, clock) ==
    [v |-> time_update(v, clock),
     st |-> IF v.has_subs
            THEN SubsUpdate(st, v.elapsed_time, TicksPerSec)
            ELSE st]

\* time_update with the subtitle window fed elapsed_time * 1000
MarkRendered(v, st, clock) ==
    [v |-> time_update(v, clock),
     st |-> IF v.has_subs
            THEN SubsUpdate(st, v.elapsed_time * MsPerSec, TicksPerSec)
            ELSE st]

\* A loop that waits at the failed read for a frame to come.
MutWaitsForFrame == "wait"

\* What the loop does after a failed read, run.py 357-358: continue.
AfterFailedRead == "loop"

\* One pass through the body of `if should_rerender()`, run.py 353-374:
\* time_update, read the next frame, draw it. gap ticks pass before the clock
\* is read, work ticks while the frame is read and drawn; addstr raises
\* curses.error when draws_ok is false.
Loop_Render ==
    /\ pc = "loop"
    /\ ~vs.exit_request /\ ~should_end(vs)
    /\ should_rerender(vs)
    /\ \E gap \in Gaps, work \in 0..MaxWork, draws_ok \in BOOLEAN :
        LET m == MarkRendered(vs, sub, now + gap)
        IN  /\ vs' = m.v
            /\ first_mark' = IF first_mark = NoInt THEN now + gap ELSE first_mark
            /\ IF ReadFails(cap_pos, env)
               THEN \* ret is false: continue
                    /\ ret' = IF cap_pos >= env.frames THEN "eof" ELSE "bad"
                    /\ cap_pos' = IF cap_pos >= env.frames THEN cap_pos ELSE cap_pos + 1
                    /\ now' = now + gap
                    /\ sub' = m.st
                    /\ pc' = AfterFailedRead
                    /\ UNCHANGED <<drawn, rendered, result>>
               ELSE /\ ret' = "ok"
                    /\ cap_pos' = cap_pos + 1
                    /\ now' = now + gap + work
                    /\ IF draws_ok
                       THEN /\ drawn' = cap_pos
                            /\ rendered' = TRUE
                            /\ sub' = IF vs.has_subs THEN render_subs(m.st) ELSE m.st
                            /\ pc' = "complete"
                            /\ UNCHANGED result
                       ELSE /\ result' = [kind |-> "return", success |-> FALSE,
                                          code |-> 1, msg |-> "exception"]
                            /\ sub' = m.st
                            /\ pc' = "after_main"
                            /\ UNCHANGED <<drawn, rendered>>
    /\ UNCHANGED <<variant, env, term, exit_code, returned, printed, last_time, codecVars,
                   auxVars>>

\* should_rerender() is false, run.py 353: nothing is drawn.
Loop_Skip ==
    /\ pc = "loop"
    /\ ~vs.exit_request /\ ~should_end(vs)
    /\ ~should_rerender(vs)
    /\ rendered' = FALSE
    /\ pc' = "complete"
    /\ UNCHANGED <<variant, env, now, vs, cap_pos, ret, drawn, term, result, exit_code,
                   returned, printed, first_mark, subVars, codecVars,
                   auxVars>>

\* video_stream.complete_frame(perf_counter()), run.py 376. gap ticks pass
\* between the two clock reads, the sleep lasts jitter ticks too long, after
\* ticks pass before the last clock read.
Loop_CompleteFrame ==
    /\ pc = "complete"
    /\ \E gap \in Gaps, jitter \in Jitters, after \in Gaps :
        LET t1 == now
            real_t0 == t1 + gap
            asked == SleepAsked(vs, Max(0, t1 - vs.t0))
            slept == IF asked > 0 THEN asked + jitter ELSE 0
            real_t1 == real_t0 + slept + after
        IN  /\ asked = 0 => jitter = 0
            /\ vs' = complete_frame(vs, t1, real_t0, real_t1)
            /\ now' = real_t1
            /\ sleep_req' = asked
    /\ pc' = "loop"
    /\ UNCHANGED <<variant, env, cap_pos, ret, drawn, rendered, term, result, exit_code,
                   returned, printed, first_mark, subVars, codecVars,
                   audio, ras>>

\* main after _main has ended, run.py 435-438: the result is unpacked (a
\* None cannot be: TypeError) and, in run.py, the message printed.
\* embedded_video.py 348 only unpacks.
Main_AfterMain ==
    /\ pc = "after_main"
    /\ IF result.kind = "return"
       THEN /\ exit_code' = result.code
            /\ printed' = IF variant = "run" /\ ~result.success
                          THEN Append(printed, [msg |-> result.msg, term |-> term])
                          ELSE printed
       ELSE UNCHANGED <<exit_code, printed>>
    /\ pc' = "finally"
    /\ UNCHANGED <<variant, env, term, result, returned, loopVars, last_time, codecVars,
                   auxVars>>

\* The terminal after main's try statement, run.py 434-442: nocbreak, echo and
\* endwin are in the finally block, so they run however _main ended.
MutRestoreOnReturnOnly(res) == IF res.kind = "raise" THEN "curses" ELSE "shell"
Restored(res) == "shell"

\* main's finally block, run.py 439-444: restore the terminal and return
\* exit_code (a return in a finally block drops a pending exception).
Main_Finally ==
    /\ pc = "finally"
    /\ term' = Restored(result)
    /\ returned' = exit_code
    /\ pc' = "exited"
    /\ UNCHANGED <<variant, env, result, exit_code, printed, loopVars, last_time, codecVars,
                   auxVars>>

Next ==
    \/ Main_CheckArgs
    \/ Main_InitScr
    \/ UMain_Open
    \/ Loop_End
    \/ Loop_Render
    \/ Loop_Skip
    \/ Loop_CompleteFrame
    \/ Main_AfterMain
    \/ Main_Finally

Spec == Init /\ [][Next]_vars

\* --------------------------------------------------------------------------
\* Claims about the player
\* --------------------------------------------------------------------------
InLoop == pc \in {"loop", "complete"}

\* C2: at every render the source frame that is read and drawn is the frame
\* whose index is TimeToFrameIndex(elapsed_time), the value time_update
\* stored in last_rendered_frame, whatever the measured frame durations.
C2_DrawnIsTargetFrame ==
    (pc = "complete" /\ rendered) => drawn = vs.last_rendered_frame

\* C3: should_rerender() is false right after time_update, and it turns
\* from false to true only in a step that advances elapsed_time over a frame
\* boundary (the frame index of elapsed_time changes).
C3_RerenderOnlyAfterBoundary ==
    [][/\ Loop_Render => ~should_rerender(vs')
       /\ (InLoop /\ InLoop' /\ ~should_rerender(vs) /\ should_rerender(vs')) =>
             /\ vs'.elapsed_time > vs.elapsed_time
             /\ time_to_frameno(vs', vs'.elapsed_time)
                    # time_to_frameno(vs, vs.elapsed_time)
             /\ vs'.last_rendered_frame = vs.last_rendered_frame]_vars

\* Witness of C3: a frame was marked and drawn, and the clock has since
\* crossed into another frame.
C3_Witness ==
    /\ pc = "loop"
    /\ drawn >= 0
    /\ vs.last_rendered_frame >= 0
    /\ should_rerender(vs)
    /\ ~should_end(vs)

\* C4: elapsed_time never exceeds the wall-clock time that has passed since
\* the first time_update: no interval of wall time is counted twice.
C4_ClockWithinWallTime ==
    (InLoop /\ first_mark # NoInt) => vs.elapsed_time <= now - first_mark

\* C5: when the frame source reports end-of-stream before should_end() is
\* true, the loop stops: it is no longer iterating, and no error is raised.
C5_EndOfStreamStopsLoop ==
    (ret = "eof" /\ drawn >= 0) =>
        /\ ~InLoop
        /\ result.kind = "none"

\* C9: main never returns with the terminal still in curses mode, whichever
\* way _main ended: playback over, video not opened, exception in the loop,
\* exception before the loop.
C9_TerminalRestored ==
    /\ pc = "exited" => term = "shell"
    /\ term = "curses" => pc \in {"_main", "loop", "complete", "after_main", "finally"}

\* Witness of C9: main has returned after VideoStream's constructor raised.
C9_Witness ==
    /\ pc = "exited"
    /\ exit_code # NoInt
    /\ result.kind = "raise"

\* Further cases of C9: playback ran to its end; the video could not be
\* opened; the render loop raised.
C9_WitnessEnd == pc = "exited" /\ result.kind = "none" /\ drawn >= 0
C9_WitnessNotOpened == pc = "exited" /\ result.kind = "return" /\ result.code = 2
C9_WitnessLoopRaised == pc = "exited" /\ result.kind = "return" /\ result.code = 1

\* C10: when the render loop ended because should_end() became true and no
\* error occurred, main returns 0.
C10_SuccessReturnsZero ==
    (pc = "exited" /\ result.kind = "none" /\ ret = "ok" /\ drawn >= 0) => returned = 0

\* C11: the play command, given an input path that does not exist, ends
\* with exit code 2 (and has drawn nothing).
C11_MissingInputExitsTwo ==
    (pc = "exited" /\ variant = "run" /\ ~env.input_exists)
        => (returned = 2 /\ drawn = -1)

\* C20: every iteration of the render loop that does not end the loop
\* calls complete_frame: the loop is left from its head only towards
\* complete_frame or towards the end of _main, never back to its head.
C20_EveryIterationCompletes ==
    [][(pc = "loop" /\ pc' \in {"loop", "complete"}) => pc' = "complete"]_vars

\* C22: on an unexpected failure inside the render loop the terminal is
\* restored before the error message is reported, and the message is
\* reported: when main has returned after such a failure, the message has
\* been printed, with the terminal back in its original mode at the time.
C22_RestoreBeforeReport ==
    (pc = "exited" /\ result.kind = "return" /\ result.code = 1) =>
        \E i \in 1..Len(printed) :
            printed[i].msg = result.msg /\ printed[i].term = "shell"

\* C24: the construction of the VideoStream succeeds for every fps the
\* video source reports, 0 and negative values included: fps falls back to
\* 30, and duration is total_frame_count divided by the positive fps, so
\* should_end is false at elapsed_time = 0 for a source with a frame.
C24_ConstructionFallsBack ==
    (pc \notin {"start", "initscr", "_main"} /\ env.input_exists /\ env.opens
     /\ env.total >= 1) =>
        /\ vs # NoObj
        /\ vs.fps > 0
        /\ env.src_fps <= 0 => vs.fps = FallbackFps
        /\ vs.duration >= 0
        /\ vs.duration * vs.fps = vs.total_frame_count * TicksPerSec
        /\ ~(0 >= vs.duration)

\* C26: the render loop calls SubtitleState.update exactly once per
\* time_update, with elapsed_time * 1000, and the times it passes over a
\* playback are non-decreasing: elapsed_time never decreases, a step that
\* marks a frame rendered leaves the window as one update at that time
\* does (drawn by render_subs or not), and no other step touches it.
C26_UpdateOncePerMark ==
    [][(InLoop /\ pc' \in {"loop", "complete", "after_main"}) =>
        /\ vs'.elapsed_time >= vs.elapsed_time
        /\ IF pc = "loop" /\ ~should_end(vs) /\ should_rerender(vs) /\ vs.has_subs
           THEN LET u == SubsUpdate(sub, vs.elapsed_time * MsPerSec, TicksPerSec)
                IN  sub' \in {u, render_subs(u)}
           ELSE sub' = sub]_vars

\* Witness of C26: the window has been updated at a later time than the
\* first: both cues of the track are passed and a second frame is drawn.
C26_Witness ==
    /\ InLoop
    /\ vs.has_subs
    /\ sub.current = 2
    /\ drawn >= 1
    /\ vs.elapsed_time >= OneMs

\* ==========================================================================
\* SpecAudio: the player with the audio thread (thread_audio, run.py
\* 156-164) interleaved with main
\* ==========================================================================

\* The player's environment with an --audio argument: not given, a path
\* that does not exist, or a file (which may still fail to load or play).
AudioArgs == {"none", "missing", "given"}
AudioEnvs ==
    {[input_exists |-> TRUE, subs |-> "none", audio |-> a, bad |-> {}, opens |-> TRUE,
      src_fps |-> 750, total |-> n, frames |-> n] :
         a \in AudioArgs, n \in {1, 2}}

InitAudio ==
    /\ variant \in {"run", "embedded"}
    /\ env \in AudioEnvs
    /\ pc = "start"
    /\ now = 0 /\ vs = NoObj /\ cap_pos = 0 /\ ret = "none" /\ drawn = -1
    /\ rendered = FALSE /\ term = "shell" /\ result = NoResult
    /\ exit_code = NoInt /\ returned = NoInt /\ printed = <<>>
    /\ first_mark = NoInt
    /\ SubIdle
    /\ CodecIdle
    /\ AuxIdle

\* thread_audio 157-160: from_wave_file and play. Either may raise; the
\* except clause of 162-164 catches it and the thread ends. A path that
\* names no file always raises. The thread is a daemon: it runs only while
\* the process does.
Audio_Play ==
    /\ audio = "started"
    /\ pc # "exited"
    /\ audio' \in (IF env.audio = "given" THEN {"playing", "failed"} ELSE {"failed"})
    /\ UNCHANGED <<subVars, playVars, codecVars, sleep_req, ras>>

\* thread_audio 161: wait_done returns when the playback has ended, or
\* raises (a device error), which is caught as above.
Audio_WaitDone ==
    /\ audio = "playing"
    /\ pc # "exited"
    /\ audio' \in {"done", "failed"}
    /\ UNCHANGED <<subVars, playVars, codecVars, sleep_req, ras>>

NextAudio ==
    \/ Next
    \/ Audio_Play
    \/ Audio_WaitDone

SpecAudio == InitAudio /\ [][NextAudio]_vars

\* C12: in every interleaving, a failure of the audio playback is caught
\* inside the audio thread and neither propagates to nor stalls the render
\* loop: a step of the thread changes nothing of the player or the
\* subtitles, a step of the player leaves a started thread alone, and
\* whatever the thread's state, main can take its next step until it has
\* returned.
C12_AudioNeverStallsLoop ==
    /\ [](pc # "exited" => ENABLED Next)
    /\ [][(Audio_Play \/ Audio_WaitDone) => UNCHANGED <<playVars, subVars>>]_vars
    /\ [][(Next /\ audio # "none") => audio' = audio]_vars

\* Witness of C12: the audio thread has failed and the playback ran to its
\* end of stream.
C12_Witness ==
    /\ audio = "failed"
    /\ pc = "exited"
    /\ result.kind = "none"
    /\ drawn >= 0

\* Further cases of C12: the audio never finished; it finished; it failed
\* while the loop was running.
C12_WitnessEndless == audio = "playing" /\ pc = "exited" /\ drawn >= 0
C12_WitnessDone == audio = "done" /\ pc = "exited" /\ drawn >= 0
C12_WitnessFailedInLoop == audio = "failed" /\ pc = "complete"

\* ==========================================================================
\* SpecSource: the player on a frame source whose reads may fail before
\* its end, with and without a caption track; FairSource is the same with
\* main always taking its next step
\* ==========================================================================
SourceEnvs ==
    {[input_exists |-> TRUE, subs |-> sb, audio |-> "none", bad |-> b,
      opens |-> TRUE, src_fps |-> 750, total |-> n,
      frames |-> IF reads THEN n ELSE 0] :
         sb \in {"none", "long"}, b \in SUBSET {0, 1},
         n \in 1..MaxFrames, reads \in BOOLEAN}

InitSource ==
    /\ variant \in {"run", "embedded"}
    /\ env \in SourceEnvs
    /\ pc = "start"
    /\ now = 0 /\ vs = NoObj /\ cap_pos = 0 /\ ret = "none" /\ drawn = -1
    /\ rendered = FALSE /\ term = "shell" /\ result = NoResult
    /\ exit_code = NoInt /\ returned = NoInt /\ printed = <<>>
    /\ first_mark = NoInt
    /\ SubIdle
    /\ CodecIdle
    /\ AuxIdle

SpecSource == InitSource /\ [][Next]_vars

\* main is a running thread of a live process: it takes its next step.
FairSource == SpecSource /\ WF_vars(Next)

\* C21: playback ends: for a source with a positive frame count and fps,
\* whatever its reads return and whether or not an iteration re-renders,
\* the render loop eventually reaches elapsed_time >= duration (unless a
\* draw raises, which ends the loop at once), and when the loop has ended
\* without an error the clock is at its end.
Ended == vs # NoObj /\ should_end(vs)

C21_PlaybackEnds ==
    /\ [](InLoop => <>(Ended \/ result.kind = "return"))
    /\ [](result.kind = "none" => Ended)

\* Witness of C21: the loop has ended at the end of the clock on a source
\* that had a failed read, and iterations that did not re-render.
C21_Witness ==
    /\ pc = "after_main"
    /\ result.kind = "none"
    /\ Ended
    /\ ret # "none"
    /\ env.bad # {}
    /\ vs.frame_counter_before_update > vs.last_rendered_frame + 1

\* C25: whenever render_subs draws, the cached lines it uses are the line
\* splits of the cues in active, for any sequence of read outcomes, a
\* failed read followed by a successful one included.
C25_CacheIsActiveLines ==
    (pc = "complete" /\ rendered /\ vs.has_subs) =>
        sub.cached = [i \in 1..Len(sub.active) |-> SplitLines(sub.active[i])]
\* ==========================================================================
\* The container codec: compress.py and decompress.py
\* ==========================================================================

\* ------------------------------------------------------------------ bounds
MaxSrcFrames == 3     \* frames of the video given to compress.py

\* The size of the rasters, <<width, height>>, and the grey values in them.
RasterDims == <<2, 1>>
Pixels == {0, 128}

\* "thba".encode("ascii")
Magic == <<116, 104, 98, 97>>

RECURSIVE Pow256(_)
Pow256(k) == IF k = 0 THEN 1 ELSE 256 * Pow256(k - 1)

\* int.to_bytes(k): k bytes, the most significant first
ToBytes(n, k) == [i \in 1..k |-> (n \div Pow256(k - i)) % 256]

\* int.from_bytes(b): the bytes read as a number, the most significant first
RECURSIVE FromBytes(_)
FromBytes(b) ==
    IF Len(b) = 0 THEN 0
    ELSE 256 * FromBytes(SubSeq(b, 1, Len(b) - 1)) + b[Len(b)]

\* f.read(k) at offset pos: up to k bytes, fewer at the end of the file
ReadAt(f, pos, k) == SubSeq(f, pos + 1, Min(pos + k, Len(f)))

\* lz4.frame, modelled as a tagged run-length code: the tag byte, then
\* (count, value) pairs.
Lz4Tag == <<4>>

RECURSIVE RunLength(_)
RunLength(d) ==
    IF Len(d) = 0 THEN <<>>
    ELSE LET n == CHOOSE k \in 1..Len(d) :
                     /\ \A i \in 1..k : d[i] = d[1]
                     /\ (k = Len(d) \/ d[k + 1] # d[1])
         IN  <<n, d[1]>> \o RunLength(SubSeq(d, n + 1, Len(d)))

RECURSIVE Expand(_)
Expand(c) ==
    IF Len(c) < 2 THEN <<>>
    ELSE [i \in 1..c[1] |-> c[2]] \o Expand(SubSeq(c, 3, Len(c)))

\* lz4f.compress
Lz4Compress(d) == Lz4Tag \o RunLength(d)

\* lz4f.decompress raises on what is no frame of the codec
Lz4Raises(c) ==
    \/ Len(c) < 1
    \/ SubSeq(c, 1, 1) # Lz4Tag
    \/ (Len(c) - 1) % 2 # 0
    \/ \E i \in 1..((Len(c) - 1) \div 2) : c[2 * i] = 0

\* lz4f.decompress
Lz4Decompress(c) == Expand(SubSeq(c, 2, Len(c)))

\* bytes.decode("ascii") raises UnicodeDecodeError on a byte above 127
AsciiDecodeRaises(b) == \E i \in 1..Len(b) : b[i] > 127

\* Image.frombytes("L", (w, h), data) raises ValueError when the data are
\* fewer than w * h bytes; the image holds the first w * h bytes.
FromBytesRaises(w, h, data) == Len(data) < w * h
ImageFromBytes(w, h, data) == SubSeq(data, 1, w * h)

\* ---- compress.py

\* The rasters of the source: gray_frame.tobytes() of each frame read, at
\* the size of the container.
Rasters == [1..(RasterDims[1] * RasterDims[2]) -> Pixels]

RECURSIVE SeqsUpTo(_, _)
SeqsUpTo(S, n) ==
    IF n = 0 THEN {<<>>}
    ELSE SeqsUpTo(S, n - 1) \cup
         {Append(q, x) : q \in {r \in SeqsUpTo(S, n - 1) : Len(r) = n - 1}, x \in S}

\* <<cap.get(CAP_PROP_FPS), args.fps>>
FpsPairs == {<<10, 10>>, <<20, 10>>}

\* The inputs of compress.py. size_given: --size was passed, so width and
\* height are ints; without it they are what cap.get returns, floats.
EncInputs ==
    {[input_exists |-> FALSE, frames |-> <<>>, src_fps |-> 10, fps |-> 10,
      size_given |-> TRUE, no_compression |-> FALSE]}
    \cup
    {[input_exists |-> TRUE, frames |-> fr, src_fps |-> p[1], fps |-> p[2],
      size_given |-> sg, no_compression |-> nc] :
         fr \in SeqsUpTo(Rasters, MaxSrcFrames), p \in FpsPairs,
         sg \in BOOLEAN, nc \in BOOLEAN}

InitCodec ==
    /\ cin \in EncInputs
    /\ cpc = "enc_start"
    /\ frame_idx = 0 /\ last_frame = 0 /\ chunk_list = <<>> /\ file = <<>>
    /\ damage = "none" /\ dec = NoObj /\ exported = <<>>
    /\ enc_code = NoInt /\ dec_code = NoInt
    /\ SubIdle
    /\ PlayIdle
    /\ AuxIdle

\* compress.main 34-66: a missing input file ends the run with code 2.
Enc_Start ==
    /\ cpc = "enc_start"
    /\ IF ~cin.input_exists
       THEN enc_code' = 2 /\ cpc' = "enc_exited"
       ELSE cpc' = "enc_read" /\ UNCHANGED enc_code
    /\ UNCHANGED <<cin, frame_idx, last_frame, chunk_list, file, damage, dec, exported,
                   dec_code, subVars, playVars,
                   auxVars>>

\* compress.main 73: real_frame_idx = int(frame_idx / step), step =
\* cap.get(CAP_PROP_FPS) / args.fps
real_frame_idx(idx, c) == (idx * c.fps) \div c.src_fps

\* compress.main 74: whether the frame just read is stored
MutStoresFromZero(idx, last, c) == real_frame_idx(idx, c) >= last
StoresFrame(idx, last, c) == real_frame_idx(idx, c) > last

\* compress.main 79-82: the chunk of a raster
Chunk(raster, c) == IF c.no_compression THEN raster ELSE Lz4Compress(raster)

\* compress.main 68-91: one pass of the loop that reads the source.
Enc_ReadFrame ==
    /\ cpc = "enc_read"
    /\ IF frame_idx >= Len(cin.frames)
       THEN \* ret is false: break
            /\ cpc' = "enc_write"
            /\ UNCHANGED <<frame_idx, last_frame, chunk_list>>
       ELSE /\ IF StoresFrame(frame_idx, last_frame, cin)
               THEN /\ chunk_list' = Append(chunk_list, Chunk(cin.frames[frame_idx + 1], cin))
                    /\ last_frame' = last_frame + 1
               ELSE UNCHANGED <<chunk_list, last_frame>>
            /\ frame_idx' = frame_idx + 1
            /\ UNCHANGED cpc
    /\ UNCHANGED <<cin, file, damage, dec, exported, enc_code, dec_code, subVars, playVars,
                   auxVars>>

RECURSIVE WriteChunks(_)
WriteChunks(chunks) ==
    IF Len(chunks) = 0 THEN <<>>
    ELSE ToBytes(Len(chunks[1]), 4) \o chunks[1] \o WriteChunks(Tail(chunks))

\* compress.main 104-107: the header up to the chunk count
HeaderStart(c, chunks) ==
    Magic \o ToBytes(c.fps, 1) \o ToBytes(IF c.no_compression THEN 0 ELSE 1, 1)
          \o ToBytes(Len(chunks), 4)

\* compress.main 103-115: the file is written. A float has no to_bytes:
\* without --size, width.to_bytes(4) raises AttributeError after the first
\* four fields are written.
Enc_Write ==
    /\ cpc = "enc_write"
    /\ IF cin.size_given
       THEN /\ file' = HeaderStart(cin, chunk_list)
                          \o ToBytes(RasterDims[1], 4) \o ToBytes(RasterDims[2], 4)
                          \o WriteChunks(chunk_list)
            /\ enc_code' = 0
       ELSE /\ file' = HeaderStart(cin, chunk_list)
            /\ enc_code' = 1
    /\ cpc' = "enc_exited"
    /\ UNCHANGED <<cin, frame_idx, last_frame, chunk_list, damage, dec, exported,
                   dec_code, subVars, playVars,
                   auxVars>>

\* ---- the file between the two programs

\* The offset of the first chunk: the header is 4 + 1 + 1 + 4 + 4 + 4 bytes.
HeaderLen == Len(Magic) + 1 + 1 + 4 + 4 + 4

\* The file with the payload of its first chunk broken: a compressed chunk
\* loses its codec tag, a raw chunk its last byte (the length prefix follows).
BreakFirstChunk(f, compressed) ==
    LET len == FromBytes(ReadAt(f, HeaderLen, 4))
        payload == ReadAt(f, HeaderLen + 4, len)
        rest == SubSeq(f, HeaderLen + 4 + len + 1, Len(f))
        broken == IF compressed THEN <<0>> \o Tail(payload)
                  ELSE SubSeq(payload, 1, len - 1)
    IN  SubSeq(f, 1, HeaderLen) \o ToBytes(Len(broken), 4) \o broken \o rest

\* The container is damaged on disk before it is decoded: the magic gets a
\* wrong ASCII byte or a non-ASCII byte, or the first chunk is broken.
Damage ==
    /\ cpc = "enc_exited"
    /\ enc_code = 0
    /\ damage = "none"
    /\ \E kind \in {"magic", "magic_non_ascii", "chunk"} :
        /\ kind = "chunk" => Len(chunk_list) >= 1
        /\ damage' = kind
        /\ file' = CASE kind = "magic" -> <<120>> \o Tail(file)
                     [] kind = "magic_non_ascii" -> <<255>> \o Tail(file)
                     [] kind = "chunk" -> BreakFirstChunk(file, ~cin.no_compression)
    /\ UNCHANGED <<cpc, cin, frame_idx, last_frame, chunk_list, dec, exported,
                   enc_code, dec_code, subVars, playVars,
                   auxVars>>

\* ---- decompress.py, run on the file compress.py wrote

\* decompress.main 15-27: a missing input file ends the run with code 1.
Dec_Start ==
    /\ cpc = "enc_exited"
    /\ enc_code \in {0, 2}
    /\ IF enc_code = 2
       THEN dec_code' = 1 /\ cpc' = "dec_exited"
       ELSE cpc' = "dec_header" /\ UNCHANGED dec_code
    /\ UNCHANGED <<cin, frame_idx, last_frame, chunk_list, file, damage, dec, exported,
                   enc_code, subVars, playVars,
                   auxVars>>

\* The exit code of a Python program ended by an uncaught exception.
UncaughtExit == 1

\* decompress.main 30-33: the exit code for a header that decoded and is
\* not the magic.
BadMagicExit == 6

\* decompress.main 29-40: the magic is read, decoded as ASCII and compared,
\* then the other header fields are read.
Dec_Header ==
    /\ cpc = "dec_header"
    /\ LET header == ReadAt(file, 0, 4)
       IN  IF AsciiDecodeRaises(header)
           THEN dec_code' = UncaughtExit /\ cpc' = "dec_exited" /\ UNCHANGED dec
           ELSE IF header # Magic
           THEN dec_code' = BadMagicExit /\ cpc' = "dec_exited" /\ UNCHANGED dec
           ELSE /\ dec' = [has_compression |-> FromBytes(ReadAt(file, 5, 1)) # 0,
                           chunk_count |-> FromBytes(ReadAt(file, 6, 4)),
                           img_width |-> FromBytes(ReadAt(file, 10, 4)),
                           img_height |-> FromBytes(ReadAt(file, 14, 4)),
                           i |-> 0,
                           pos |-> HeaderLen]
                /\ cpc' = "dec_chunk"
                /\ UNCHANGED dec_code
    /\ UNCHANGED <<cin, frame_idx, last_frame, chunk_list, file, damage, exported,
                   enc_code, subVars, playVars,
                   auxVars>>

\* decompress.main 47-62: one pass of the chunk loop. An exception of
\* lz4f.decompress or Image.frombytes is not caught: it ends the program.
Dec_Chunk ==
    /\ cpc = "dec_chunk"
    /\ IF dec.i >= dec.chunk_count
       THEN dec_code' = 0 /\ cpc' = "dec_exited" /\ UNCHANGED <<dec, exported>>
       ELSE LET chunk_len == FromBytes(ReadAt(file, dec.pos, 4))
                chunk_data == ReadAt(file, dec.pos + 4, chunk_len)
                raises1 == dec.has_compression /\ Lz4Raises(chunk_data)
                data == IF dec.has_compression THEN Lz4Decompress(chunk_data)
                        ELSE chunk_data
            IN  IF raises1 \/ FromBytesRaises(dec.img_width, dec.img_height, data)
                THEN /\ dec_code' = UncaughtExit
                     /\ cpc' = "dec_exited"
                     /\ UNCHANGED <<dec, exported>>
                ELSE /\ exported' = Append(exported,
                                       ImageFromBytes(dec.img_width, dec.img_height, data))
                     /\ dec' = [dec EXCEPT !.i = @ + 1, !.pos = @ + 4 + chunk_len]
                     /\ UNCHANGED <<dec_code, cpc>>
    /\ UNCHANGED <<cin, frame_idx, last_frame, chunk_list, file, damage, enc_code,
                   subVars, playVars,
                   auxVars>>

NextCodec ==
    \/ Enc_Start
    \/ Enc_ReadFrame
    \/ Enc_Write
    \/ Damage
    \/ Dec_Start
    \/ Dec_Header
    \/ Dec_Chunk

SpecCodec == InitCodec /\ [][NextCodec]_vars

\* --------------------------------------------------------------------------
\* Claims about the codec
\* --------------------------------------------------------------------------
Decoded == cpc = "dec_exited" /\ enc_code = 0

\* C6: round trip: the rasters given to the encoder, written as a container
\* and read back, come out with the same frame count, the same dimensions
\* and byte-identical, in the same order, compressed or not. (Stated for a
\* source whose frame rate is the target rate, where no frame is resampled
\* away.)
C6_RoundTrip ==
    (Decoded /\ damage = "none" /\ cin.src_fps = cin.fps) =>
        /\ dec_code = 0
        /\ dec.chunk_count = Len(cin.frames)
        /\ <<dec.img_width, dec.img_height>> = RasterDims
        /\ exported = cin.frames

\* What does hold of the container: the chunks compress.py stored come back
\* byte-identical and in order when the file is read undamaged.
RECURSIVE StoredRasters(_, _, _)
StoredRasters(frames, idx, last) ==
    IF idx >= Len(frames) THEN <<>>
    ELSE IF StoresFrame(idx, last, cin)
         THEN <<frames[idx + 1]>> \o StoredRasters(frames, idx + 1, last + 1)
         ELSE StoredRasters(frames, idx + 1, last)

ContainerRoundTrip ==
    (Decoded /\ damage = "none") =>
        /\ dec_code = 0
        /\ dec.chunk_count = Len(chunk_list)
        /\ exported = StoredRasters(cin.frames, 0, 0)

\* C7: a file whose first 4 bytes are not the magic fails decode with exit
\* code 6, before any other header field is read and with no frame exported.
C7_BadMagicIsInvalidFormat ==
    (Decoded /\ ReadAt(file, 0, 4) # Magic) =>
        /\ dec_code = BadMagicExit
        /\ dec = NoObj
        /\ exported = <<>>

\* C8: a chunk that does not decompress to width*height bytes is fatal for
\* its frame only: every later chunk is still read and processed.
C8_BadChunkIsIsolated ==
    (Decoded /\ damage = "chunk" /\ Len(chunk_list) >= 2) =>
        /\ dec.i = dec.chunk_count
        /\ Len(exported) = dec.chunk_count - 1

\* C15: in a container the encoder has written, frameCount equals the
\* number of chunks, every chunk decompresses to width*height bytes, and the
\* chunks are in presentation order with chunk 0 holding the first frame of
\* the source.
C15_ChunkZeroIsFirstFrame ==
    (cpc = "enc_exited" /\ enc_code = 0 /\ Len(cin.frames) >= 2) =>
        LET raster(c) == IF cin.no_compression THEN c ELSE Lz4Decompress(c)
        IN  /\ FromBytes(ReadAt(file, Len(Magic) + 2, 4)) = Len(chunk_list)
            /\ \A i \in 1..Len(chunk_list) :
                   Len(raster(chunk_list[i])) = RasterDims[1] * RasterDims[2]
            /\ Len(chunk_list) >= 1
            /\ raster(chunk_list[1]) = cin.frames[1]

\* ==========================================================================
\* SpecClock: the clock of a VideoStream without subtitles, its methods
\* called in any order, set_fps among them (run.py 91-146)
\* ==========================================================================

\* ------------------------------------------------------------------ bounds
MaxClock == 9         \* no call starts after this reading of perf_counter()
MaxCalls == 3         \* calls of complete_frame
MaxStamp == 16        \* the largest cue timestamp set_fps is called on

\* The rates the stream is constructed with or set to, and the arguments
\* set_fps ignores.
ClockFpsSet == {375, 750, 1500}
SetFpsArgs == ClockFpsSet \cup {0, 0 - 1}

\* subs.transform_framerate(in_fps, out_fps) of pysubs2: every timestamp
\* times in_fps / out_fps, rounded. The library is not part of the
\* repository; the call is taken to return the rescaled track, as the
\* assignment of its result in run.py 50 and 171 expects.
TransformFramerate(cues, in_fps, out_fps) ==
    [i \in 1..Len(cues) |->
        [cues[i] EXCEPT !.start = RoundHalfEven(@ * in_fps, out_fps),
                        !.end = RoundHalfEven(@ * in_fps, out_fps)]]

\* load_subtitles, run.py 166-175, and SubtitleState.__init__: a track that
\* records a frame rate (subs.fps, None for the formats timed in ms) is
\* rescaled to the rate of the video when it is loaded.
SubsLoad(cues, track_fps, target_fps) ==
    [subs |-> IF track_fps = NoInt THEN cues
              ELSE TransformFramerate(cues, track_fps, target_fps),
     subs_fps |-> track_fps,
     current |-> 0, active |-> <<>>, cached |-> <<>>, stale |-> FALSE]

\* SubtitleState.set_fps, run.py 46-50
SubsSetFps(st, fps) ==
    IF st.subs_fps = NoInt THEN st
    ELSE [st EXCEPT !.subs = TransformFramerate(st.subs, st.subs_fps, fps)]

\* VideoStream.set_fps, run.py 91-99, with the subtitle window
SetFrameRate(v, st, new_fps) ==
    [v |-> set_fps(v, new_fps),
     st |-> IF new_fps > 0 /\ v.has_subs THEN SubsSetFps(st, new_fps) ELSE st]

InitClock ==
    /\ pc = "clock" /\ variant = "run" /\ env = NoObj /\ now = 0
    /\ vs \in {VsNew(f, 1, FALSE) : f \in ClockFpsSet}
    /\ cap_pos = 0 /\ ret = "none" /\ drawn = -1 /\ rendered = FALSE
    /\ term = "shell" /\ result = NoResult /\ exit_code = NoInt /\ returned = NoInt
    /\ printed = <<>> /\ first_mark = NoInt
    /\ SubIdle
    /\ CodecIdle
    /\ AuxIdle

clockOther == <<pc, variant, env, cap_pos, ret, drawn, rendered, term, result,
                exit_code, returned, printed, first_mark, subVars, codecVars,
                audio, ras>>

\* The caller spends work ticks between two calls.
Clk_Work ==
    /\ pc = "clock"
    /\ now < MaxClock
    /\ \E work \in 1..MaxWork : now' = now + work
    /\ UNCHANGED <<vs, clockOther, sleep_req>>

clockRest == <<pc, variant, env, cap_pos, ret, drawn, rendered, term, result,
               exit_code, returned, printed, first_mark, last_time, codecVars,
               audio, ras>>

\* video_stream.time_update()
Clk_TimeUpdate ==
    /\ pc = "clock"
    /\ LET m == MarkRendered(vs, sub, now)
       IN  vs' = m.v /\ sub' = m.st
    /\ UNCHANGED <<now, clockRest, sleep_req>>

\* video_stream.complete_frame(perf_counter()); the clock reads inside it
\* as in Loop_CompleteFrame.
Clk_CompleteFrame ==
    /\ pc = "clock"
    /\ now < MaxClock
    /\ vs.frame_counter_before_update < MaxCalls
    /\ \E gap \in Gaps, jitter \in Jitters, after \in Gaps :
        LET t1 == now
            real_t0 == t1 + gap
            asked == SleepAsked(vs, Max(0, t1 - vs.t0))
            slept == IF asked > 0 THEN asked + jitter ELSE 0
            real_t1 == real_t0 + slept + after
        IN  /\ asked = 0 => jitter = 0
            /\ vs' = complete_frame(vs, t1, real_t0, real_t1)
            /\ now' = real_t1
            /\ sleep_req' = asked
    /\ UNCHANGED clockOther

\* video_stream.set_fps(new_fps). It is not called on a track whose
\* timestamps have grown beyond MaxStamp.
Clk_SetFps ==
    /\ pc = "clock"
    /\ vs.has_subs => \A i \in 1..Len(sub.subs) : sub.subs[i].end <= MaxStamp
    /\ \E new_fps \in SetFpsArgs :
        LET r == SetFrameRate(vs, sub, new_fps)
        IN  vs' = r.v /\ sub' = r.st
    /\ UNCHANGED <<now, clockRest, sleep_req>>

NextClock ==
    \/ Clk_Work
    \/ Clk_TimeUpdate
    \/ Clk_CompleteFrame
    \/ Clk_SetFps

SpecClock == InitClock /\ [][NextClock]_vars

\* C13: time_to_frameno, round(elapsed * fps), is non-decreasing in elapsed
\* for a fixed positive fps, the half-way points included: no earlier
\* elapsed time gives a larger frame number than the clock's elapsed time.
C13_FrameNoMonotone ==
    pc = "clock" =>
        /\ vs.fps > 0
        /\ \A e \in 0..vs.elapsed_time :
               time_to_frameno(vs, e) <= time_to_frameno(vs, vs.elapsed_time)

\* Witness of C13: the clock stands at the half-way point 2.5 (10 ticks at
\* 750 frames per second), which rounds to the even 2, the frame rendered.
C13_Witness ==
    /\ pc = "clock"
    /\ vs.fps = 750
    /\ vs.elapsed_time = 10
    /\ vs.last_rendered_frame = 2

\* C18: complete_frame(now) computes rawDelta = max(0, now - t0); it sleeps
\* exactly when rawDelta < frame interval and the remainder is at least
\* 1 ms, and then for the remainder; otherwise it does not sleep.
C18_SleepsForRemainder ==
    [][Clk_CompleteFrame =>
        LET rawDelta == Max(0, now - vs.t0)
            frameInterval == vs.time_step
        IN  /\ sleep_req' = IF rawDelta < frameInterval
                               /\ frameInterval - rawDelta >= OneMs
                            THEN frameInterval - rawDelta
                            ELSE 0
            /\ now' - now >= sleep_req'
            /\ vs'.last_frame_delta = rawDelta - frameInterval]_vars

\* Witness of C18: a complete_frame call found a remainder of two thirds of
\* a millisecond and did not sleep.
C18_Witness ==
    /\ pc = "clock"
    /\ vs.frame_counter_before_update >= 1
    /\ vs.last_frame_delta = 0 - 2
    /\ sleep_req = 0

\* Further cases of C18: the call slept; the call came after the frame
\* interval had passed.
C18_WitnessSlept == pc = "clock" /\ sleep_req >= OneMs
C18_WitnessLate ==
    pc = "clock" /\ vs.frame_counter_before_update >= 1
                 /\ vs.last_frame_delta > 0 /\ sleep_req = 0

\* C19: the sleep complete_frame asks for is never longer than one frame
\* interval, 1 / fps, in every reachable state: also after set_fps has
\* changed the rate, and for calls with no time_update before them.
C19_SleepWithinFrameInterval ==
    [][Clk_CompleteFrame =>
        /\ sleep_req' >= 0
        /\ sleep_req' <= vs.time_step
        /\ sleep_req' * vs.fps <= TicksPerSec]_vars

\* Witness of C19: a stream constructed at 750 frames per second (the
\* duration of its one frame is 4 ticks), set to 375, has slept for the
\* whole of the new frame interval.
C19_Witness ==
    /\ pc = "clock"
    /\ vs.duration = 4
    /\ vs.fps = 375
    /\ sleep_req = 8

\* ==========================================================================
\* SpecRate: a VideoStream with a caption track, constructed for every rate
\* the source reports and then time_update and set_fps called in any order
\* ==========================================================================

\* The frame rate a caption track records: None, or 750.
TrackFpsSet == {NoInt, 750}

InitRate ==
    /\ pc = "clock" /\ variant = "run" /\ env = NoObj /\ now = 0
    /\ \E f \in ClockFpsSet \cup {0 - 1}, tf \in TrackFpsSet :
        /\ vs = VsNew(f, 1, TRUE)
        /\ sub = SubsLoad(LongCues, tf, VsNew(f, 1, TRUE).fps)
    /\ last_time = NoInt
    /\ cap_pos = 0 /\ ret = "none" /\ drawn = -1 /\ rendered = FALSE
    /\ term = "shell" /\ result = NoResult /\ exit_code = NoInt /\ returned = NoInt
    /\ printed = <<>> /\ first_mark = NoInt
    /\ CodecIdle
    /\ AuxIdle

NextRate ==
    \/ Clk_TimeUpdate
    \/ Clk_SetFps

SpecRate == InitRate /\ [][NextRate]_vars

C23_WitnessNoFps ==
    /\ pc = "clock"
    /\ vs.duration = 4
    /\ vs.fps = 375
    /\ sub.subs_fps = NoInt
    /\ sub.subs = LongCues

\* ==========================================================================
\* SpecRaster: create_frame on one pixel (run.py 253-263; embedded_video.py
\* 238-248 is the same code)
\* ==========================================================================

\* ------------------------------------------------------------------ bounds
MaxRamp == 257        \* the longest ascii set given to --ascii

\* The grey values of the pixel, 0..255 as cv2.cvtColor returns them.
WhiteLevel == 255
Colors == {0, 1, 127, 128, 254, WhiteLevel}

\* .astype(np.uint8) of a rounded float: a value a uint8 holds is kept; the
\* cast of any other is undefined in C, and the builds of numpy either wrap
\* it modulo 256 or saturate it.
Uint8Cast(x) == IF x \in 0..WhiteLevel THEN {x} ELSE {x % (WhiteLevel + 1), WhiteLevel}

\* create_frame 255-260 for a pixel of grey value color: gray = color / 255,
\* inverted to 1 - gray, times len(ascii_list) - 1, rounded half to even,
\* cast to uint8.
AsciiIndices(color, is_inverted, ramp_len) ==
    LET level == IF is_inverted THEN WhiteLevel - color ELSE color
    IN  Uint8Cast(RoundHalfEven(level * (ramp_len - 1), WhiteLevel))

\* The arguments of one create_frame call, its result not yet computed.
RasterInputs ==
    {[ramp_len |-> n, color |-> c, is_inverted |-> b, index |-> NoInt] :
        n \in 1..MaxRamp, c \in Colors, b \in BOOLEAN}

InitRaster ==
    /\ ras \in RasterInputs /\ audio = "none" /\ sleep_req = NoInt
    /\ SubIdle
    /\ PlayIdle
    /\ CodecIdle

CreateFrame ==
    /\ ras.index = NoInt
    /\ \E idx \in AsciiIndices(ras.color, ras.is_inverted, ras.ramp_len) :
           ras' = [ras EXCEPT !.index = idx]
    /\ UNCHANGED <<subVars, playVars, codecVars, audio, sleep_req>>

NextRaster == CreateFrame

SpecRaster == InitRaster /\ [][NextRaster]_vars

\* C16: in the non-inverted rasterizer, for every ramp length R >= 1, the
\* index computed for intensity 255 is R-1, for intensity 0 it is 0, and
\* every index lies in 0..R-1.
C16_ExtremesMapToRampEnds ==
    (ras # NoObj /\ ras.index # NoInt /\ ~ras.is_inverted) =>
        /\ ras.index \in 0..(ras.ramp_len - 1)
        /\ ras.color = WhiteLevel => ras.index = ras.ramp_len - 1
        /\ ras.color = 0 => ras.index = 0

\* What does hold of create_frame: the same for the ramps a uint8 can index.
RasterUpTo256 ==
    (ras # NoObj /\ ras.index # NoInt /\ ~ras.is_inverted
     /\ ras.ramp_len <= WhiteLevel + 1) =>
        /\ ras.index \in 0..(ras.ramp_len - 1)
        /\ ras.color = WhiteLevel => ras.index = ras.ramp_len - 1
        /\ ras.color = 0 => ras.index = 0

====
